---------------------------- MODULE Spec2Model ----------------------------
(***************************************************************************)
(* The shared message ledger of the SMSC simulator.                        *)
(*                                                                         *)
(* Several simulator processes (smsc_simulator.py, class SMSHandler) each  *)
(* keep a process-local view of the messages they know, and the            *)
(* standalone port-80 server (http_server_80.py) keeps none.  All of them  *)
(* append to one file, shared_messages.json, by read-modify-write without  *)
(* any lock: read the file, append, cut to the cap, open the file for      *)
(* writing (which truncates it) and dump the new content.  The file steps  *)
(* of one writer interleave with those of the others, so they are separate *)
(* actions here; everything a handler does to its own memory is one step.  *)
(***************************************************************************)
EXTENDS Integers, Sequences, FiniteSets, TLC

(***************************************************************************)
(* Bounds of the model.                                                    *)
(*   Cap       stands for the cap of 100 messages the code applies to      *)
(*             every view and to the file (scaled down).                   *)
(*   MaxClock  is the number of records created in one behaviour in which  *)
(*             every handler runs without interruption.                    *)
(*   MaxRace   is the number of records created in one behaviour in which  *)
(*             the file steps of the writers interleave.                   *)
(*   MaxSolo   is the number of records a process creates when it is the   *)
(*             only one running.                                           *)
(*   MaxHttp   is the number of records created in one behaviour of the    *)
(*             HTTP listeners.                                             *)
(*   MaxThread is the number of records created in one behaviour of the    *)
(*             listener threads of one process.                            *)
(***************************************************************************)
Cap == 2

MaxClock == 3

MaxRace == 3

MaxSolo == 16

MaxHttp == 2

MaxThread == 4

\* The simulator processes, each holding one SMSHandler.
Procs == {1, 2}

\* The standalone port-80 server process.
H80 == 0

\* Every process that writes shared_messages.json.
Writers == Procs \cup {H80}

\* The lone process of the single-writer specification.
SoloProc == CHOOSE p \in Procs : \A q \in Procs : p <= q

VARIABLES
    message_counter,     \* SMSHandler.message_counter, per process
    processed_messages,  \* SMSHandler.processed_messages, per process
    successful_messages, \* SMSHandler.successful_messages, per process
    failed_messages,     \* SMSHandler.failed_messages, per process
    shared_file,         \* the content of shared_messages.json
    pc,                  \* where each writer is inside its handler
    message_data,        \* the record the writer's last handler built
    messages,            \* the local list of _save_message_to_shared_file
    saved,               \* how the save of the writer's last handler ended
    clock,               \* datetime.now(), advanced by every record created
    response,            \* the last HTTP response a listener has sent
    thread               \* where each listener thread is inside its method

vars == <<message_counter, processed_messages, successful_messages,
          failed_messages, shared_file, pc, message_data,
          messages, saved, clock, response, thread>>

handler_vars == <<message_counter, processed_messages, successful_messages,
                  failed_messages>>

----------------------------------------------------------------------------
(* Helpers on sequences *)

Range(s) == {s[i] : i \in 1..Len(s)}

Min(a, b) == IF a < b THEN a ELSE b

\* s[-n:] of Python: the last n elements of s (all of s when it is shorter).
LastN(s, n) == IF Len(s) > n THEN SubSeq(s, Len(s) - n + 1, Len(s)) ELSE s

\* The elements of s whose id is not in ids, in the order of s.
RECURSIVE SelectIds(_, _)
SelectIds(s, ids) ==
    IF s = <<>> THEN <<>>
    ELSE IF Head(s).id \in ids THEN SelectIds(Tail(s), ids)
         ELSE <<Head(s)>> \o SelectIds(Tail(s), ids)

\* The number of elements of s whose status is st (a scan of the view).
RECURSIVE CountStatus(_, _)
CountStatus(s, st) ==
    IF s = <<>> THEN 0
    ELSE (IF Head(s).status = st THEN 1 ELSE 0) + CountStatus(Tail(s), st)

\* The number of elements of s whose id is x.
RECURSIVE CountId(_, _)
CountId(s, x) ==
    IF s = <<>> THEN 0
    ELSE (IF Head(s).id = x THEN 1 ELSE 0) + CountId(Tail(s), x)

----------------------------------------------------------------------------
(* Records and the file *)

\* No record built yet.
NoMsg == [id |-> 0, ts |-> 0, src |-> H80, status |-> "none",
          source |-> "none", direction |-> "none"]

\* message_data of process_sms: response_code is always '00', so the status
\* is always 'success'; the record has no 'source' key.
SmsRecord(p, n, t) ==
    [id |-> n, ts |-> t, src |-> p, status |-> "success",
     source |-> "apdu", direction |-> "received"]

\* message_data of add_message.
HttpRecord(p, n, t) ==
    [id |-> n, ts |-> t, src |-> p, status |-> "success",
     source |-> "http", direction |-> "received"]

\* The defaults of _handle_simulate_outgoing_request for a request without
\* parameters.
DefaultDestination == "+5511999999999"

DefaultText == "Mensagem de teste do simulador"

\* The destinations and texts a caller of simulate_outgoing_message gives.
Destinations == {DefaultDestination, "+5511888888888"}

Texts == {DefaultText, "Ola"}

\* OutgoingRecord with the text of the caller dropped for the default one.
OutgoingRecordDefaultText(p, n, t, dest, text) ==
    [id |-> n, ts |-> t, src |-> p, status |-> "success",
     source |-> "simulator", direction |-> "sent",
     destination_address |-> dest, user_data |-> DefaultText]

\* message_data of simulate_outgoing_message.
OutgoingRecord(p, n, t, dest, text) ==
    [id |-> n, ts |-> t, src |-> p, status |-> "success",
     source |-> "simulator", direction |-> "sent",
     destination_address |-> dest, user_data |-> text]

\* The id of the port-80 server: the string "msg_<time>", which equals no
\* integer id of a simulator; it is the negated time here.
Msg80Id(t) == 0 - t

\* message of the port-80 server's _handle_sms_request: it has no 'status'
\* and no 'direction' key.
Port80Record(t) ==
    [id |-> Msg80Id(t), ts |-> t, src |-> H80, status |-> "none",
     source |-> "http_port_80", direction |-> "none"]

\* The file does not exist.
Absent == [kind |-> "absent", msgs |-> <<>>]

\* The file is empty or holds a prefix or a mix of documents: json.load fails.
Torn == [kind |-> "torn", msgs |-> <<>>]

\* The layout each writer dumps: the simulator a bare list, the port-80
\* server a mapping with a 'messages' key.
Layout(w) == IF w = H80 THEN "dict" ELSE "list"

FileOf(w, ms) == [kind |-> Layout(w), msgs |-> ms]

\* The records a well-formed file holds, whichever writer wrote it.
StoreRecords == shared_file.msgs

\* An HTTP response: the endpoint that sent it, the process it belongs to and
\* its status code; status 0 when the connection was closed without one.
Response(e, w, code) == [endpoint |-> e, proc |-> w, status |-> code]

\* No request has been served yet.
NoResponse == Response("none", H80, 0)

\* The listener threads of one simulator process that call the methods of
\* the SMSHandler they share: the web listener, in the main thread, and the
\* port-80 listener, in a thread of its own.  (The SMS listener, the third
\* thread, answers /status and nothing else.)
Threads == {"web", "http"}

\* A thread that is in no method; register is the value it holds between
\* the load and the store of self.message_counter += 1.
IdleThread == [at |-> "idle", register |-> 0]

----------------------------------------------------------------------------
Init ==
    /\ message_counter = [p \in Procs |-> 0]
    /\ processed_messages = [p \in Procs |-> <<>>]
    /\ successful_messages = [p \in Procs |-> 0]
    /\ failed_messages = [p \in Procs |-> 0]
    /\ shared_file = Absent
    /\ pc = [w \in Writers |-> "idle"]
    /\ message_data = [w \in Writers |-> NoMsg]
    /\ messages = [w \in Writers |-> <<>>]
    /\ saved = [w \in Writers |-> "none"]
    /\ clock = 0
    /\ response = NoResponse
    /\ thread = [t \in Threads |-> IdleThread]


----------------------------------------------------------------------------
(* SMSHandler of smsc_simulator.py *)

\* AppendCapped with pop() for pop(0): over the cap the newest record goes.
AppendCappedDropNewest(view, rec) ==
    IF Len(view) >= Cap THEN view ELSE Append(view, rec)

\* processed_messages.append(message_data), then pop(0) when the list has
\* grown over the cap.
AppendCapped(view, rec) ==
    LET v == Append(view, rec)
    IN  IF Len(v) > Cap THEN Tail(v) ELSE v

\* get_statistics with the total taken from the view.
get_statistics_of_view(p) ==
    [total_messages |-> Len(processed_messages[p]),
     successful_messages |-> successful_messages[p],
     failed_messages |-> failed_messages[p],
     last_processed |-> IF processed_messages[p] # <<>>
                        THEN processed_messages[p][Len(processed_messages[p])]
                        ELSE NoMsg]

\* get_statistics: the counters as reported (uptime and rate left out).
get_statistics(p) ==
    [total_messages |-> message_counter[p],
     successful_messages |-> successful_messages[p],
     failed_messages |-> failed_messages[p],
     last_processed |-> IF processed_messages[p] # <<>>
                        THEN processed_messages[p][Len(processed_messages[p])]
                        ELSE NoMsg]

\* MergeShared without the cut to the last 100.
MergeSharedUncapped(local, shared) ==
    LET existing_ids == {local[i].id : i \in 1..Len(local)}
    IN  local \o SelectIds(shared, existing_ids)

\* MergeShared with the file records put before the local ones.
MergeSharedStoreFirst(local, shared) ==
    LET existing_ids == {local[i].id : i \in 1..Len(local)}
    IN  LastN(SelectIds(shared, existing_ids) \o local, Cap)

\* The merge of load_shared_messages: existing_ids is taken once, before the
\* loop; every shared record whose id is not in it is appended in file order;
\* then processed_messages[-100:].
MergeShared(local, shared) ==
    LET existing_ids == {local[i].id : i \in 1..Len(local)}
    IN  LastN(local \o SelectIds(shared, existing_ids), Cap)

\* LoadedView with the view taken from the file when the file cannot be
\* used: the view is lost.
LoadedViewOrEmpty(local, file) ==
    IF file.kind = "list" THEN MergeShared(local, file.msgs) ELSE <<>>

\* What load_shared_messages makes of the view for a given file content.  A
\* missing file is skipped; json.load of a torn file raises; iterating the
\* port-80 mapping yields its keys, and msg.get on a key raises before
\* anything is appended: in each case the view stays as it was.
LoadedView(local, file) ==
    IF file.kind = "list" THEN MergeShared(local, file.msgs) ELSE local

\* The part of a handler that counts and stores the new record locally.
RecordLocally(p, rec) ==
    /\ message_counter' = [message_counter EXCEPT ![p] = @ + 1]
    /\ processed_messages' =
           [processed_messages EXCEPT ![p] = AppendCapped(@, rec)]
    /\ successful_messages' = [successful_messages EXCEPT ![p] = @ + 1]
    /\ clock' = clock + 1
    /\ UNCHANGED failed_messages

\* process_sms: the record stays in the process; nothing is written to the
\* shared file.
process_sms(p) ==
    /\ pc[p] = "idle"
    /\ RecordLocally(p, SmsRecord(p, message_counter[p] + 1, clock + 1))
    /\ saved' = [saved EXCEPT ![p] = "none"]
    /\ UNCHANGED <<shared_file, pc, message_data, messages>>

\* load_shared_messages: one read of the file, merged into the view.
load_shared_messages(p) ==
    /\ pc[p] = "idle"
    /\ processed_messages' =
           [processed_messages EXCEPT ![p] = LoadedView(@, shared_file)]
    /\ saved' = [saved EXCEPT ![p] = "none"]
    /\ UNCHANGED <<message_counter, successful_messages, failed_messages,
                   shared_file, pc, message_data, messages, clock>>

\* clear_messages with pop(0) for clear(): one call drops the oldest record
\* only, a second call drops another.
clear_messages_pop(p) ==
    /\ pc[p] = "idle"
    /\ processed_messages' =
           [processed_messages EXCEPT ![p] = IF @ = <<>> THEN @ ELSE Tail(@)]
    /\ message_counter' = [message_counter EXCEPT ![p] = 0]
    /\ successful_messages' = [successful_messages EXCEPT ![p] = 0]
    /\ failed_messages' = [failed_messages EXCEPT ![p] = 0]
    /\ saved' = [saved EXCEPT ![p] = "none"]
    /\ UNCHANGED <<shared_file, pc, message_data, messages, clock>>

\* clear_messages: the view and the counters of the process; the shared file
\* is not touched.
clear_messages(p) ==
    /\ pc[p] = "idle"
    /\ processed_messages' = [processed_messages EXCEPT ![p] = <<>>]
    /\ message_counter' = [message_counter EXCEPT ![p] = 0]
    /\ successful_messages' = [successful_messages EXCEPT ![p] = 0]
    /\ failed_messages' = [failed_messages EXCEPT ![p] = 0]
    /\ saved' = [saved EXCEPT ![p] = "none"]
    /\ UNCHANGED <<shared_file, pc, message_data, messages, clock>>

\* reset_statistics: what clear_messages does; it also restarts start_time,
\* which only the uptime uses.
reset_statistics(p) ==
    /\ pc[p] = "idle"
    /\ processed_messages' = [processed_messages EXCEPT ![p] = <<>>]
    /\ message_counter' = [message_counter EXCEPT ![p] = 0]
    /\ successful_messages' = [successful_messages EXCEPT ![p] = 0]
    /\ failed_messages' = [failed_messages EXCEPT ![p] = 0]
    /\ saved' = [saved EXCEPT ![p] = "none"]
    /\ UNCHANGED <<shared_file, pc, message_data, messages, clock>>

----------------------------------------------------------------------------
(* _save_message_to_shared_file, of both programs *)

\* Can writer w use what json.load returns?  The simulator appends to it, so
\* it must be a list; the port-80 server calls data.get, so it must be a
\* mapping.  The other program's layout raises AttributeError, which only the
\* outer handler catches.
Readable(w, file) == file.kind \in {"absent", "torn", Layout(w)}

\* ExistingMessages of a save that does not read the file first: the file
\* is rewritten with the new message alone.
ExistingMessagesNone(w, file) == <<>>

\* The messages the writer starts from: those of a file in its own layout,
\* none when the file is missing or json.load raised.
ExistingMessages(w, file) ==
    IF file.kind = Layout(w) THEN file.msgs ELSE <<>>

\* WithNewMessage with messages[:100] for messages[-100:].
WithNewMessageKeepOldest(ms, rec) == SubSeq(Append(ms, rec), 1, Min(Len(ms) + 1, Cap))

\* messages.append(message); messages = messages[-100:] when over the cap.
WithNewMessage(ms, rec) == LastN(Append(ms, rec), Cap)

\* The ways one uninterrupted _save_message_to_shared_file can end, as the
\* file it leaves and its outcome:
\*   the other program's layout: the append (or data.get) raises, the outer
\*     except logs it, the file is as it was;
\*   the file is rewritten with the new message;
\*   open(shared_file, 'w') raises (no permission): the file is as it was;
\*   json.dump or the close raises (disk full): the file is left torn.
SaveOutcomes(w, file, rec) ==
    IF ~Readable(w, file)
    THEN {[file |-> file, saved |-> "failed"]}
    ELSE {[file |-> FileOf(w, WithNewMessage(ExistingMessages(w, file), rec)),
           saved |-> "ok"],
          [file |-> file, saved |-> "failed"],
          [file |-> Torn, saved |-> "failed"]}

\* _save_message_to_shared_file run without interruption; it never raises.
save_message_to_shared_file(w, rec) ==
    \E o \in SaveOutcomes(w, shared_file, rec) :
        /\ shared_file' = o.file
        /\ saved' = [saved EXCEPT ![w] = o.saved]

\* add_message: the record is counted and stored locally, then saved.
add_message(p) ==
    LET rec == HttpRecord(p, message_counter[p] + 1, clock + 1)
    IN  /\ pc[p] = "idle"
        /\ RecordLocally(p, rec)
        /\ save_message_to_shared_file(p, rec)
        /\ UNCHANGED <<pc, message_data, messages>>

\* simulate_outgoing_message: as add_message, for a record that was sent.
simulate_outgoing_message(p, dest, text) ==
    LET rec == OutgoingRecord(p, message_counter[p] + 1, clock + 1, dest, text)
    IN  /\ pc[p] = "idle"
        /\ RecordLocally(p, rec)
        /\ save_message_to_shared_file(p, rec)
        /\ UNCHANGED <<pc, message_data, messages>>

\* _handle_sms_request of the port-80 server: the message is built whatever
\* the parameters are, and saved.
handle_sms_request_80 ==
    /\ pc[H80] = "idle"
    /\ clock' = clock + 1
    /\ save_message_to_shared_file(H80, Port80Record(clock + 1))
    /\ UNCHANGED <<handler_vars, pc, message_data, messages>>

----------------------------------------------------------------------------
(* The system with every handler running without interruption *)

\* The methods of SMSHandler called one after the other; no HTTP response is
\* sent at this level.
Next ==
    \/ \E p \in Procs :
           clock < MaxClock /\ process_sms(p) /\ UNCHANGED <<response, thread>>
    \/ \E p \in Procs :
           clock < MaxClock /\ add_message(p) /\ UNCHANGED <<response, thread>>
    \/ \E p \in Procs :
           clock < MaxClock
               /\ simulate_outgoing_message(p, DefaultDestination, DefaultText)
               /\ UNCHANGED <<response, thread>>
    \/ clock < MaxClock /\ handle_sms_request_80
           /\ UNCHANGED <<response, thread>>
    \/ \E p \in Procs :
           load_shared_messages(p) /\ UNCHANGED <<response, thread>>
    \/ \E p \in Procs : clear_messages(p) /\ UNCHANGED <<response, thread>>
    \/ \E p \in Procs : reset_statistics(p) /\ UNCHANGED <<response, thread>>

Spec == Init /\ [][Next]_vars

----------------------------------------------------------------------------
(* The file steps of _save_message_to_shared_file, one at a time, with the  *)
(* medium never failing                                                     *)

\* A handler up to its call of _save_message_to_shared_file.
BeginSave(w, rec) ==
    /\ pc[w] = "idle"
    /\ message_data' = [message_data EXCEPT ![w] = rec]
    /\ saved' = [saved EXCEPT ![w] = "none"]
    /\ pc' = [pc EXCEPT ![w] = "save_read"]
    /\ UNCHANGED <<shared_file, messages>>

add_message_begin(p) ==
    LET rec == HttpRecord(p, message_counter[p] + 1, clock + 1)
    IN  RecordLocally(p, rec) /\ BeginSave(p, rec)

simulate_outgoing_message_begin(p, dest, text) ==
    LET rec == OutgoingRecord(p, message_counter[p] + 1, clock + 1, dest, text)
    IN  RecordLocally(p, rec) /\ BeginSave(p, rec)

handle_sms_request_80_begin ==
    /\ BeginSave(H80, Port80Record(clock + 1))
    /\ clock' = clock + 1
    /\ UNCHANGED handler_vars

\* The read half: the file is read and the new content prepared.
SaveRead(w) ==
    /\ pc[w] = "save_read"
    /\ Readable(w, shared_file)
    /\ messages' = [messages EXCEPT
           ![w] = WithNewMessage(ExistingMessages(w, shared_file),
                                 message_data[w])]
    /\ pc' = [pc EXCEPT ![w] = "save_open"]
    /\ UNCHANGED <<handler_vars, shared_file, message_data, saved, clock>>

\* The read half when the file is in the other program's layout.
SaveLayoutError(w) ==
    /\ pc[w] = "save_read"
    /\ ~Readable(w, shared_file)
    /\ saved' = [saved EXCEPT ![w] = "failed"]
    /\ pc' = [pc EXCEPT ![w] = "idle"]
    /\ UNCHANGED <<handler_vars, shared_file, message_data, messages, clock>>

\* open(shared_file, 'w'): the file is truncated at once.
SaveOpen(w) ==
    /\ pc[w] = "save_open"
    /\ shared_file' = Torn
    /\ pc' = [pc EXCEPT ![w] = "save_dump"]
    /\ UNCHANGED <<handler_vars, message_data, messages, saved, clock>>

\* The contents the file can have once w's dump has been flushed.  w writes
\* from offset 0 of the file it truncated when it opened it.  If the file is
\* still empty the result is w's document.  If another writer has flushed its
\* own document since, w's bytes overwrite the start of it: the result is w's
\* document when that is at least as long, and otherwise w's document
\* followed by the tail of the other one, which does not parse.
DumpOutcomes(w, file, ms) ==
    IF file.kind = "torn" THEN {FileOf(w, ms)} ELSE {FileOf(w, ms), Torn}

\* json.dump and the close of the file.
SaveDump(w) ==
    /\ pc[w] = "save_dump"
    /\ shared_file' \in DumpOutcomes(w, shared_file, messages[w])
    /\ saved' = [saved EXCEPT ![w] = "ok"]
    /\ pc' = [pc EXCEPT ![w] = "idle"]
    /\ messages' = [messages EXCEPT ![w] = <<>>]
    /\ UNCHANGED <<handler_vars, message_data, clock>>

NextInterleaved ==
    \/ \E p \in Procs :
           clock < MaxRace /\ process_sms(p) /\ UNCHANGED <<response, thread>>
    \/ \E p \in Procs :
           clock < MaxRace /\ add_message_begin(p)
               /\ UNCHANGED <<response, thread>>
    \/ \E p \in Procs :
           clock < MaxRace
               /\ simulate_outgoing_message_begin(p, DefaultDestination,
                                                  DefaultText)
               /\ UNCHANGED <<response, thread>>
    \/ clock < MaxRace /\ handle_sms_request_80_begin
           /\ UNCHANGED <<response, thread>>
    \/ \E p \in Procs :
           load_shared_messages(p) /\ UNCHANGED <<response, thread>>
    \/ \E p \in Procs : clear_messages(p) /\ UNCHANGED <<response, thread>>
    \/ \E p \in Procs : reset_statistics(p) /\ UNCHANGED <<response, thread>>
    \/ \E w \in Writers : SaveRead(w) /\ UNCHANGED <<response, thread>>
    \/ \E w \in Writers : SaveLayoutError(w) /\ UNCHANGED <<response, thread>>
    \/ \E w \in Writers : SaveOpen(w) /\ UNCHANGED <<response, thread>>
    \/ \E w \in Writers : SaveDump(w) /\ UNCHANGED <<response, thread>>

SpecInterleaved == Init /\ [][NextInterleaved]_vars


----------------------------------------------------------------------------
(* Restricted environments *)

\* The medium works: no save has just failed.
MediumWorks == \A w \in Writers : saved[w] # "failed"

\* One simulator process alone, on a medium that works: it ingests over HTTP,
\* simulates outgoing messages and reconciles.
NextSolo ==
    \/ clock < MaxSolo /\ add_message(SoloProc) /\ MediumWorks'
           /\ UNCHANGED <<response, thread>>
    \/ \E dest \in Destinations, text \in Texts :
           clock < MaxSolo /\ simulate_outgoing_message(SoloProc, dest, text)
               /\ MediumWorks' /\ UNCHANGED <<response, thread>>
    \/ load_shared_messages(SoloProc) /\ UNCHANGED <<response, thread>>

SpecSolo == Init /\ [][NextSolo]_vars

----------------------------------------------------------------------------
(* The HTTP listeners: requests served one after the other *)

\* Everything but the response.
handler_state == <<message_counter, processed_messages, successful_messages,
                   failed_messages, shared_file, pc, message_data, messages,
                   saved, clock>>

\* The recognized fields of a submission.
Fields == {"submit", "sms_submit_ud", "sms_submit_da", "sms_submit_pid",
           "sms_submit_dcs"}

\* A submission, as the set of the recognized fields it populates (a field
\* that is absent and one that is empty both read as '').
Submissions == SUBSET Fields

\* SMSCRequestHandler._handle_sms_request, which do_GET of the web listener
\* calls for every path that contains /cgi-bin/smshandler.pl: only 'submit'
\* is looked at.
handle_sms_request(p, q) ==
    IF "submit" \in q
    THEN /\ process_sms(p)
         /\ response' = Response("sms", p, 200)
    ELSE /\ response' = Response("sms", p, 400)
         /\ UNCHANGED handler_state

\* SMSRequestHandler.do_POST of the SMS listener: it calls
\* self._handle_sms_request() without the query_params argument, which
\* raises TypeError; do_POST has no try, so the connection is closed without
\* a response.
sms_do_POST(p, q) ==
    /\ response' = Response("sms_post", p, 0)
    /\ UNCHANGED handler_state

\* handle_sms_submit_request with the outcome of the save surfaced: a failed
\* write to the shared file is answered with an internal error.
handle_sms_submit_request_strict(p, q) ==
    IF q # {}
    THEN /\ add_message(p)
         /\ response' = Response("sms_submit", p,
                                 IF saved'[p] = "failed" THEN 500 ELSE 200)
    ELSE /\ response' = Response("sms_submit", p, 400)
         /\ UNCHANGED handler_state

\* HTTPRequestHandler._handle_sms_submit_request of the port-80 listener of
\* the simulator: any populated field will do.  add_message never raises.
handle_sms_submit_request(p, q) ==
    IF q # {}
    THEN /\ add_message(p)
         /\ response' = Response("sms_submit", p, 200)
    ELSE /\ response' = Response("sms_submit", p, 400)
         /\ UNCHANGED handler_state

\* do_GET of the standalone port-80 server on /cgi-bin/smshandler.pl: no
\* field is checked, and a failed save is only logged.
do_GET_80(q) ==
    /\ handle_sms_request_80
    /\ response' = Response("sms_80", H80, 200)

\* _handle_simulate_outgoing_request: destination and text have defaults.
handle_simulate_outgoing_request(p) ==
    /\ simulate_outgoing_message(p, DefaultDestination, DefaultText)
    /\ response' = Response("simulate_outgoing", p, 200)

\* _handle_messages_request: reconcile, then answer with the view.
handle_messages_request(p) ==
    /\ load_shared_messages(p)
    /\ response' = Response("messages", p, 200)

\* _handle_stats_request: get_statistics and nothing else.
handle_stats_request(p) ==
    /\ response' = Response("stats", p, 200)
    /\ UNCHANGED handler_state

\* _handle_clear_messages.
handle_clear_messages(p) ==
    /\ clear_messages(p)
    /\ response' = Response("clear", p, 200)

NextHttp ==
    \/ \E p \in Procs, q \in Submissions :
           clock < MaxHttp /\ handle_sms_request(p, q) /\ UNCHANGED thread
    \/ \E p \in Procs, q \in Submissions :
           clock < MaxHttp /\ sms_do_POST(p, q) /\ UNCHANGED thread
    \/ \E p \in Procs, q \in Submissions :
           clock < MaxHttp /\ handle_sms_submit_request(p, q)
               /\ UNCHANGED thread
    \/ \E q \in Submissions :
           clock < MaxHttp /\ do_GET_80(q) /\ UNCHANGED thread
    \/ \E p \in Procs :
           clock < MaxHttp /\ handle_simulate_outgoing_request(p)
               /\ UNCHANGED thread
    \/ \E p \in Procs : handle_messages_request(p) /\ UNCHANGED thread
    \/ \E p \in Procs : handle_stats_request(p) /\ UNCHANGED thread
    \/ \E p \in Procs : handle_clear_messages(p) /\ UNCHANGED thread

SpecHttp == Init /\ [][NextHttp]_vars

----------------------------------------------------------------------------
(* Ingestion and reconcile only *)

\* The processes ingest and reconcile, and no view is ever cleared: a record
\* leaves a view by the cap only.
NextIngest ==
    \/ \E p \in Procs :
           clock < MaxClock /\ process_sms(p) /\ UNCHANGED <<response, thread>>
    \/ \E p \in Procs :
           clock < MaxClock /\ add_message(p) /\ UNCHANGED <<response, thread>>
    \/ \E p \in Procs :
           load_shared_messages(p) /\ UNCHANGED <<response, thread>>

SpecIngest == Init /\ [][NextIngest]_vars

----------------------------------------------------------------------------
(* The listener threads of one process, sharing one SMSHandler *)

\* The threads that are inside a method.
Busy == {t \in Threads : thread[t].at # "idle"}

\* self.message_counter += 1, first half: the thread loads the attribute.
load_counter(t) ==
    /\ thread[t].at = "idle"
    /\ clock + Cardinality(Busy) < MaxThread
    /\ thread' = [thread EXCEPT ![t] =
                      [at |-> "store",
                       register |-> message_counter[SoloProc]]]
    /\ UNCHANGED <<message_counter, processed_messages, successful_messages,
                   failed_messages, shared_file, pc, message_data, messages,
                   saved, clock, response>>

\* self.message_counter += 1, second half: the thread stores what it loaded,
\* plus one.
store_counter(t) ==
    /\ thread[t].at = "store"
    /\ message_counter' =
           [message_counter EXCEPT ![SoloProc] = thread[t].register + 1]
    /\ thread' = [thread EXCEPT ![t].at = "record"]
    /\ UNCHANGED <<processed_messages, successful_messages, failed_messages,
                   shared_file, pc, message_data, messages, saved, clock,
                   response>>

\* What a method does to the view and the counters once the counter is
\* stored: 'id' is read from self.message_counter again.
RecordInThread(t, rec) ==
    /\ thread[t].at = "record"
    /\ processed_messages' =
           [processed_messages EXCEPT ![SoloProc] = AppendCapped(@, rec)]
    /\ successful_messages' = [successful_messages EXCEPT ![SoloProc] = @ + 1]
    /\ clock' = clock + 1
    /\ thread' = [thread EXCEPT ![t] = IdleThread]
    /\ UNCHANGED <<message_counter, failed_messages, pc, message_data,
                   messages, response>>

\* The rest of process_sms, which the web listener calls.
process_sms_record ==
    /\ RecordInThread("web", SmsRecord(SoloProc, message_counter[SoloProc],
                                       clock + 1))
    /\ saved' = [saved EXCEPT ![SoloProc] = "none"]
    /\ UNCHANGED shared_file

\* The rest of add_message, which the port-80 listener calls; no other
\* thread touches the shared file here.
add_message_record ==
    LET rec == HttpRecord(SoloProc, message_counter[SoloProc], clock + 1)
    IN  /\ RecordInThread("http", rec)
        /\ save_message_to_shared_file(SoloProc, rec)

NextThreads ==
    \/ \E t \in Threads : load_counter(t)
    \/ \E t \in Threads : store_counter(t)
    \/ process_sms_record
    \/ add_message_record

SpecThreads == Init /\ [][NextThreads]_vars

----------------------------------------------------------------------------
(* Properties *)

Last(s) == s[Len(s)]

Ids(s) == {s[i].id : i \in 1..Len(s)}

AllIdle == \A w \in Writers : pc[w] = "idle"

\* simulate_outgoing_message called by process p, whatever it is given.
simulate_outgoing(p) ==
    \E dest \in Destinations, text \in Texts :
        simulate_outgoing_message(p, dest, text)

\* s is the sequence of the last Min(n, Cap) of the n records that process p
\* created one after the other, starting at time 0 with id 1.
IsLatestOf(s, p, n) ==
    /\ Len(s) = Min(n, Cap)
    /\ \A k \in 1..Len(s) :
           /\ s[k].id = n - Len(s) + k
           /\ s[k].ts = s[k].id
           /\ s[k].src = p

\* C1. Cap invariant: after N appends (add_message or
\* simulate_outgoing_message) by one process that started from an empty
\* ledger, the view of the process has Min(N, Cap) records, which are the
\* most recent ones in insertion order, and so has the shared file.
C1_CapInvariant ==
    /\ IsLatestOf(processed_messages[SoloProc], SoloProc,
                  message_counter[SoloProc])
    /\ IsLatestOf(StoreRecords, SoloProc, message_counter[SoloProc])

\* One append more than the cap has been made: ids 2..Cap+1 are left.
C1_Witness ==
    /\ message_counter[SoloProc] = Cap + 1
    /\ Len(processed_messages[SoloProc]) = Cap
    /\ processed_messages[SoloProc][1].id = 2
    /\ Len(StoreRecords) = Cap

\* C2. Stats match the ledger: the total that get_statistics reports is the
\* number of records in the view, and the successful and failed counts are
\* those of a scan of the status of its records.
C2_StatsMatchLedger ==
    \A p \in Procs :
        /\ get_statistics(p).total_messages = Len(processed_messages[p])
        /\ get_statistics(p).successful_messages =
               CountStatus(processed_messages[p], "success")
        /\ get_statistics(p).failed_messages =
               CountStatus(processed_messages[p], "failed")

\* C3. Counter sum: after any sequence of operations of a process,
\* get_statistics reports successful_messages + failed_messages equal to
\* total_messages.
C3_CounterSum ==
    \A p \in Procs :
        get_statistics(p).successful_messages
            + get_statistics(p).failed_messages
        = get_statistics(p).total_messages

\* A process has merged a record of the other process into its view and has
\* then ingested a record of its own: the view is full, the counters are 1.
C3_Witness ==
    \E p \in Procs :
        /\ get_statistics(p).total_messages = 1
        /\ get_statistics(p).successful_messages = 1
        /\ Len(processed_messages[p]) = 2
        /\ processed_messages[p][1].src # p
        /\ Last(processed_messages[p]).src = p

\* C4. Merge idempotence: a load_shared_messages that follows another one,
\* with no write to the file in between, leaves the view as it is.
C4_MergeIdempotent ==
    [][\A p \in Procs :
           load_shared_messages(p) =>
               LoadedView(processed_messages'[p], shared_file')
                   = processed_messages'[p]]_vars

\* C5. Dedup: a record id that is both in the view of a process and in the
\* shared file is the id of exactly one record of the view after the process
\* has reconciled (of none if the cap has cut the merged view).
C5_Dedup ==
    [][\A p \in Procs :
           load_shared_messages(p) =>
               \A x \in Ids(processed_messages[p]) \cap Ids(StoreRecords) :
                   \/ CountId(processed_messages'[p], x) = 1
                   \/ /\ CountId(processed_messages'[p], x) = 0
                      /\ Len(processed_messages'[p]) = Cap]_vars

\* C6. Cross-process visibility: every record that another simulator process
\* has written to the shared file and that is still there is in the view of
\* a process after it has reconciled.
C6_Visibility ==
    [][\A p \in Procs :
           load_shared_messages(p) =>
               \A r \in Range(StoreRecords) :
                   (r.src \in Procs \ {p})
                       => r \in Range(processed_messages'[p])]_vars

\* C7. No lost update: when the last handler of each simulator process was an
\* append whose save succeeded, and all have returned, the records they
\* appended are both in the shared file.
C7_NoLostUpdate ==
    (AllIdle /\ \A p \in Procs : saved[p] = "ok")
        => \A p \in Procs : message_data[p] \in Range(StoreRecords)

\* C8. Atomic replacement: whenever a process reads the shared file, in
\* load_shared_messages or in the read half of a save, the file is a complete
\* document (or does not exist yet), never a torn one.
C8_NoTornRead ==
    [][/\ \A p \in Procs :
              load_shared_messages(p) => shared_file.kind # "torn"
       /\ \A w \in Writers :
              (SaveRead(w) \/ SaveLayoutError(w))
                  => shared_file.kind # "torn"]_vars

\* C9. Degraded write: when the save inside add_message or
\* simulate_outgoing_message fails, the handler still returns and the new
\* record is the last one of the view of the process.
C9_DegradedWrite ==
    [][\A p \in Procs :
           /\ (add_message(p) /\ saved'[p] = "failed") =>
                  /\ pc'[p] = "idle"
                  /\ Last(processed_messages'[p])
                         = HttpRecord(p, message_counter[p] + 1, clock + 1)
           /\ (simulate_outgoing(p) /\ saved'[p] = "failed") =>
                  /\ pc'[p] = "idle"
                  /\ \E dest \in Destinations, text \in Texts :
                         Last(processed_messages'[p])
                             = OutgoingRecord(p, message_counter[p] + 1,
                                              clock + 1, dest, text)]_vars

\* A save has failed for a record that was appended to a full view.
C9_Witness ==
    \E p \in Procs :
        /\ saved[p] = "failed"
        /\ message_counter[p] = Cap + 1
        /\ Len(processed_messages[p]) = Cap
        /\ Last(processed_messages[p]).id = Cap + 1

\* C10. Clear-all: once clear_messages has run, the view is empty, the
\* counters are zero and the shared file holds no record, so that the list
\* a message-list request returns next is empty.
C10_ClearAll ==
    [][\A p \in Procs :
           clear_messages(p) =>
               /\ processed_messages'[p] = <<>>
               /\ message_counter'[p] = 0
               /\ successful_messages'[p] = 0
               /\ failed_messages'[p] = 0
               /\ StoreRecords' = <<>>
               /\ LoadedView(processed_messages'[p], shared_file') = <<>>]_vars

\* The request was refused: no success was reported and the process and the
\* shared file are as they were.
Rejected == /\ response'.status # 200
            /\ UNCHANGED <<handler_vars, shared_file>>

\* C11. Validation rejects empty submissions on every listener: a submission
\* that populates none of the recognized fields gets an error response and
\* creates no record (view, shared file, id counter and statistics counters
\* are unchanged), on the listeners of the simulator and on the standalone
\* port-80 server.
C11_RejectEmpty ==
    [][/\ \A p \in Procs :
              (\/ handle_sms_request(p, {})
               \/ sms_do_POST(p, {})
               \/ handle_sms_submit_request(p, {})) => Rejected
       /\ do_GET_80({}) => Rejected]_vars

\* The request was accepted by process p: success was reported and exactly
\* one record, with the next id, was added to the view.
Accepted(p) ==
    /\ response'.status = 200
    /\ message_counter'[p] = message_counter[p] + 1
    /\ processed_messages'[p] # <<>>
    /\ Last(processed_messages'[p]).id = message_counter'[p]
    /\ Last(processed_messages'[p]).ts = clock'

\* C12. Submissions with any populated field are accepted: on the ingest
\* endpoint of every listener, a submission that populates at least one of
\* the recognized fields is accepted and produces exactly one new record.
C12_AcceptPopulated ==
    [][\A q \in Submissions \ {{}} :
           /\ \A p \in Procs :
                  (\/ handle_sms_request(p, q)
                   \/ sms_do_POST(p, q)
                   \/ handle_sms_submit_request(p, q)) => Accepted(p)
           /\ do_GET_80(q) => response'.status = 200]_vars

\* C13. Every accepted submission is persisted: the record that process_sms,
\* add_message or simulate_outgoing_message appends to the view is in the
\* shared file when the operation ends, unless the write to the file failed.
C13_Persisted ==
    [][\A p \in Procs :
           (\/ process_sms(p)
            \/ add_message(p)
            \/ simulate_outgoing(p))
               => \/ saved'[p] = "failed"
                  \/ Last(processed_messages'[p]) \in Range(StoreRecords')]_vars

\* C14. Reads reconcile first: the message-list request and the statistics
\* request both merge the shared file into the view of the process before
\* they answer, so that the answer covers the records of sibling processes.
C14_ReadsReconcile ==
    [][\A p \in Procs :
           (handle_messages_request(p) \/ handle_stats_request(p))
               => processed_messages'[p]
                      = LoadedView(processed_messages[p], shared_file)]_vars

\* The shared file holds what processes a and b have appended to it, as many
\* records by a as by b, those of a first, no two with the same id (the
\* scenario of 5 and 5 records, at the scale of the cap).
TwoProcessStore(a, b) ==
    /\ a # b
    /\ shared_file.kind = "list"
    /\ StoreRecords # <<>>
    /\ Len(StoreRecords) % 2 = 0
    /\ \A i \in 1..Len(StoreRecords) :
           StoreRecords[i].src = IF 2 * i <= Len(StoreRecords) THEN a ELSE b
    /\ Cardinality(Ids(StoreRecords)) = Len(StoreRecords)

\* The view of process p is what p has appended to the shared file.
OwnRecordsOnly(p) ==
    LET Own(r) == r.src = p
    IN  processed_messages[p] = SelectSeq(StoreRecords, Own)

\* C15. Two-process merge scenario: when two processes have each appended
\* the same number of records, with pairwise distinct ids, to a shared file
\* that was empty, and either of them reconciles, its view is the records
\* of the first process followed by those of the second.
C15_TwoProcessMerge ==
    [][\A a \in Procs, b \in Procs, p \in Procs :
           (/\ TwoProcessStore(a, b)
            /\ OwnRecordsOnly(p)
            /\ load_shared_messages(p))
               => processed_messages'[p] = StoreRecords]_vars

\* C16. Corrupt store on read is treated as empty: when the shared file is
\* missing, unparseable or not a list of records, the reconcile of a
\* message-list request raises nothing, merges nothing (the view is exactly
\* as it was) and the request is answered normally.
C16_CorruptReadAsEmpty ==
    [][\A p \in Procs :
           (shared_file.kind # "list" /\ handle_messages_request(p))
               => /\ processed_messages'[p] = processed_messages[p]
                  /\ pc'[p] = "idle"
                  /\ response'.status = 200
                  /\ UNCHANGED <<message_counter, successful_messages,
                                 failed_messages, shared_file>>]_vars

\* A message-list request has been answered by a process that has a record
\* in its view while the shared file is unparseable.
C16_Witness ==
    \E p \in Procs :
        /\ response = Response("messages", p, 200)
        /\ shared_file.kind = "torn"
        /\ processed_messages[p] # <<>>

\* Writer w has appended record rec: its whole handler has run.
Appends(w, rec) ==
    IF w = H80
    THEN handle_sms_request_80 /\ rec = Port80Record(clock')
    ELSE /\ add_message(w) \/ simulate_outgoing(w)
         /\ rec = Last(processed_messages'[w])

\* The medium failed under the save of w: the file was read, and open or
\* json.dump then raised.
IOFault(w) == Readable(w, shared_file) /\ saved'[w] = "failed"

\* C17. Self-healing store: when the shared file is unparseable, or is
\* well-formed but not in the layout of the writer, the next append of any
\* process, with the medium writable, replaces it by a file in the layout
\* of the writer that holds the appended record.
C17_SelfHealing ==
    [][\A w \in Writers :
           \A rec \in {Port80Record(clock')}
                       \cup {Last(processed_messages'[p]) :
                                 p \in {q \in Procs :
                                           processed_messages'[q] # <<>>}} :
               (/\ shared_file.kind \notin {"absent", Layout(w)}
                /\ Appends(w, rec)
                /\ ~IOFault(w))
                   => /\ shared_file'.kind = Layout(w)
                      /\ rec \in Range(StoreRecords')]_vars

\* Process p creates a record: it ingests or simulates an outgoing message.
Creates(p) ==
    \/ process_sms(p)
    \/ add_message(p)
    \/ simulate_outgoing(p)

\* The records created so far that still exist somewhere: in the view of a
\* process or in the shared file.
ExistingRecords ==
    Range(StoreRecords)
        \cup UNION {Range(processed_messages[p]) : p \in Procs}

\* C18. Ids are monotonically increasing per process: whatever operations
\* came before (clear_messages and reset_statistics included), a record
\* that a process creates gets an id greater than the id of every record
\* the process created earlier.
C18_MonotonicIds ==
    [][\A p \in Procs :
           Creates(p) =>
               \A r \in ExistingRecords :
                   r.src = p => r.id < Last(processed_messages'[p]).id]_vars

\* No two records of the sequence s have the same id.
UniqueIds(s) == Cardinality(Ids(s)) = Len(s)

\* C19. Ids are unique within a ledger: in every reachable state no two
\* records of the view of a process have the same id, and no two records
\* of the shared file have the same id.
C19_UniqueIds ==
    /\ \A p \in Procs : UniqueIds(processed_messages[p])
    /\ UniqueIds(StoreRecords)

\* The ledger of process p is empty: no record in the view, counters zero.
Cleared(p) ==
    /\ processed_messages[p] = <<>>
    /\ message_counter[p] = 0
    /\ successful_messages[p] = 0
    /\ failed_messages[p] = 0

\* C20. Clear is idempotent: a clear request leaves the view of the process
\* empty and its counters zero and is answered with success; applied to a
\* process whose ledger is already empty (after a first clear, or before
\* any message) it changes nothing.
C20_ClearIdempotent ==
    [][\A p \in Procs :
           handle_clear_messages(p) =>
               /\ processed_messages'[p] = <<>>
               /\ message_counter'[p] = 0
               /\ successful_messages'[p] = 0
               /\ failed_messages'[p] = 0
               /\ response'.status = 200
               /\ Cleared(p) => UNCHANGED <<handler_vars, shared_file>>
               /\ \A q \in Procs \ {p} :
                      processed_messages'[q] = processed_messages[q]]_vars

\* A clear request has been answered by a process that had created two
\* records before: its ledger is empty while the other process has merged
\* both records.
C20_Witness ==
    \E p \in Procs, q \in Procs :
        /\ response = Response("clear", p, 200)
        /\ Cleared(p)
        /\ Len(processed_messages[q]) = 2
        /\ \A i \in 1..2 : processed_messages[q][i].src = p

\* C21. Accepted regardless of persistence: a submission that passes the
\* validation of the sms_submit_* ingest path is answered with success and
\* recorded in the view whether the write to the shared file succeeded or
\* failed; the same holds for the standalone port-80 server, which records
\* nowhere else.
C21_AcceptedRegardless ==
    [][/\ \A p \in Procs :
              \/ response' # Response("sms_submit", p, response'.status)
              \/ Accepted(p)
              \/ \A q \in Submissions \ {{}} :
                     ~handle_sms_submit_request(p, q)
       /\ \/ response'.status = 200
          \/ \A q \in Submissions \ {{}} : ~do_GET_80(q)]_vars

\* A submission has been answered with success although its write to the
\* shared file failed; the record is in the view of the process.
C21_Witness ==
    \E p \in Procs :
        /\ response = Response("sms_submit", p, 200)
        /\ saved[p] = "failed"
        /\ processed_messages[p] # <<>>
        /\ Last(processed_messages[p]).source = "http"
        /\ Last(processed_messages[p]) \notin Range(StoreRecords)

\* C22. Catch-all boundary: every request that a listener has handled has
\* been answered, with an internal-error response if a fault was raised;
\* none has ended with the connection closed and no response sent.
C22_CatchAll ==
    response.endpoint # "none" => response.status # 0

\* The place of record r in the sequence s, which holds it once.
Pos(s, r) == CHOOSE i \in 1..Len(s) : s[i] = r

\* C23. Merge order: load_shared_messages keeps the local records in the
\* order they had and places after them the records of the file whose id
\* was not in the view, in the order of the file; nothing else is added,
\* and nothing is left out unless the cap cuts the result.
C23_MergeOrder ==
    [][\A p \in Procs :
           (load_shared_messages(p) /\ shared_file.kind = "list") =>
               LET old == processed_messages[p]
                   new == processed_messages'[p]
                   Fresh(r) == r.id \notin Ids(old)
               IN  /\ \A r \in Range(new) \ Range(old) :
                          r \in Range(StoreRecords) /\ Fresh(r)
                   /\ \A i \in 1..Len(new), j \in 1..Len(new) :
                          i < j =>
                              IF new[i] \in Range(old)
                              THEN new[j] \in Range(old)
                                       => Pos(old, new[i]) < Pos(old, new[j])
                              ELSE /\ new[j] \notin Range(old)
                                   /\ Pos(StoreRecords, new[i])
                                          < Pos(StoreRecords, new[j])
                   /\ Len(new) = Min(Cap, Len(old)
                                 + Len(SelectSeq(StoreRecords, Fresh)))]_vars

\* A process has reconciled: its own record comes first in its view and a
\* record that another process wrote to the file comes after it.
C23_Witness ==
    \E p \in Procs :
        /\ saved[p] = "none"
        /\ Len(processed_messages[p]) = 2
        /\ processed_messages[p][1].src = p
        /\ processed_messages[p][2].src \in Procs \ {p}
        /\ processed_messages[p][2] \in Range(StoreRecords)
        /\ processed_messages[p][1].ts < processed_messages[p][2].ts

\* C24. Outgoing simulation follows the ingestion path: a call of
\* simulate_outgoing_message creates exactly one record, with direction
\* 'sent', the destination and the text it was given and the next id;
\* the record is appended to the view under the FIFO cap, counted as a
\* message and as a success, and written to the shared file, as a record
\* ingested by add_message is.
C24_OutgoingFollowsIngest ==
    [][\A dest \in Destinations, text \in Texts :
           simulate_outgoing_message(SoloProc, dest, text) =>
               LET p == SoloProc
                   rec == Last(processed_messages'[p])
               IN  /\ rec.direction = "sent"
                   /\ rec.destination_address = dest
                   /\ rec.user_data = text
                   /\ rec.id = message_counter[p] + 1
                   /\ rec = [HttpRecord(p, rec.id, clock') EXCEPT
                                 !.source = "simulator",
                                 !.direction = "sent"]
                             @@ [destination_address |-> dest,
                                 user_data |-> text]
                   /\ processed_messages'[p]
                          = LastN(processed_messages[p] \o <<rec>>, Cap)
                   /\ message_counter'[p] = message_counter[p] + 1
                   /\ successful_messages'[p] = successful_messages[p] + 1
                   /\ failed_messages'[p] = failed_messages[p]
                   /\ shared_file'
                          = FileOf(p, LastN(StoreRecords \o <<rec>>, Cap))]_vars

\* An outgoing message with a destination and a text other than the
\* defaults has been simulated on a full view: it is the last record of the
\* view and of the shared file, and the oldest record is gone.
C24_Witness ==
    LET p == SoloProc
    IN  /\ message_counter[p] = Cap + 1
        /\ Len(processed_messages[p]) = Cap
        /\ Last(processed_messages[p]).direction = "sent"
        /\ Last(processed_messages[p]).destination_address
               # DefaultDestination
        /\ Last(processed_messages[p]).user_data # DefaultText
        /\ Last(StoreRecords) = Last(processed_messages[p])
        /\ processed_messages[p][1].direction = "received"

\* C25. Cap holds in every state, including after reconcile: the view of a
\* process and the shared file never hold more records than the cap, and a
\* reconcile leaves as the view the last records, up to the cap, of the
\* old view followed by the records of the file whose id it did not have.
C25_CapEverywhere ==
    /\ [](/\ \A p \in Procs : Len(processed_messages[p]) <= Cap
          /\ Len(StoreRecords) <= Cap)
    /\ [][\A p \in Procs :
              (load_shared_messages(p) /\ shared_file.kind = "list") =>
                  LET Fresh(r) == r.id \notin Ids(processed_messages[p])
                  IN  processed_messages'[p]
                          = LastN(processed_messages[p]
                                      \o SelectSeq(StoreRecords, Fresh),
                                  Cap)]_vars

\* A reconcile has cut its result to the cap: a process with a full view
\* of records 2 and 3 has merged record 1 from the file and holds 3 and 1.
C25_Witness ==
    \E p \in Procs :
        /\ saved[p] = "none"
        /\ Len(processed_messages[p]) = Cap
        /\ message_counter[p] = Cap + 1
        /\ processed_messages[p][Cap - 1].id = Cap + 1
        /\ processed_messages[p][Cap].id = 1
        /\ processed_messages[p][Cap] \in Range(StoreRecords)

\* C26. Eviction removes the oldest record: when an ingest, an outgoing
\* simulation or a reconcile makes the cap push a record out of the view of
\* a process, every record that stays in the view was created after the
\* record that was pushed out.
C26_EvictsOldest ==
    [][\A p \in Procs :
           (Creates(p) \/ load_shared_messages(p)) =>
               \A gone \in Range(processed_messages[p])
                              \ Range(processed_messages'[p]) :
                   \A kept \in Range(processed_messages'[p]) :
                       gone.ts < kept.ts]_vars

\* C27. One store layout for all writers: whichever writer wrote the shared
\* file last, every writer can read it in its save (and so append to it),
\* and every record in it is found by the reconcile of every simulator
\* process.
C27_OneLayout ==
    /\ \A w \in Writers : Readable(w, shared_file)
    /\ \A p \in Procs :
           Ids(StoreRecords)
               \subseteq Ids(LoadedView(processed_messages[p], shared_file))


\* C28. Distinct ids under concurrent listeners: with the listener threads of
\* one process sharing one SMSHandler, the records of the view carry
\* different ids, and once every thread is out of its method the counter has
\* gone up by one for each record created.
C28_DistinctIds ==
    /\ UniqueIds(processed_messages[SoloProc])
    /\ Busy = {} => message_counter[SoloProc] = clock

\* C29. Store mirrors the view for a lone writer: for one process that
\* starts with an empty store and only ingests over HTTP, simulates outgoing
\* messages and reconciles, on a medium that works, the shared file holds
\* after every operation the same sequence of records as the view of the
\* process, in the layout of the process.
C29_StoreMirrorsView ==
    LET p == SoloProc
    IN  /\ StoreRecords = processed_messages[p]
        /\ message_counter[p] > 0
               => shared_file = FileOf(p, processed_messages[p])

\* The process has appended more records than the cap and has reconciled
\* since: view and file are the same full list, the oldest records gone.
C29_Witness ==
    LET p == SoloProc
    IN  /\ saved[p] = "none"
        /\ message_counter[p] = Cap + 2
        /\ Len(processed_messages[p]) = Cap
        /\ processed_messages[p][1].id = 3
        /\ shared_file.kind = "list"
        /\ shared_file.msgs = processed_messages[p]

\* C30. No resurrection after eviction: when the processes only ingest and
\* reconcile, a record leaves a view by the cap only, and every record a
\* process created has been in its view; so a reconcile of a process puts
\* into its view no record of its own that was not there already.
C30_NoResurrection ==
    [][\A p \in Procs :
           load_shared_messages(p)
               => \A r \in Range(processed_messages'[p]) :
                      r.src = p => r \in Range(processed_messages[p])]_vars

=============================================================================
